---- MODULE Spec2Model ----
(***************************************************************************)
(* Layout engine of the RadarChart repository (src/src/RadarPie).          *)
(*                                                                         *)
(* Numbers are exact rationals [n, d] in lowest terms with d > 0; the      *)
(* IEEE value NaN (0/0) is the record [n |-> 0, d |-> 0] and a field that  *)
(* was never assigned (JavaScript undefined) is Undef.  Angles are kept in *)
(* degrees: the code converts every angle with the same factor pi/180      *)
(* (degToRad) before it compares or adds them.                             *)
(***************************************************************************)
EXTENDS Integers, Sequences, FiniteSets, TLC

VARIABLES
    radarContent,   \* the content snapshot, annotated in place by RadarPie
    pie,            \* the RadarPie object of the last `new RadarPie(...)`
    err,            \* what the last call raised ("none" when it returned)
    op,             \* the last operation performed
    anchorIn,       \* arguments of the last calculateAnchorPlacement call
    anchorOut,      \* its result
    scaleIn,        \* arguments of the last scaleProportional call
    scaleOut,       \* its result
    container,      \* the RadarContainer: dataSource, radarContent, configuration
    build           \* the RadarContainer.appendTo call: its position and its output

vars == <<radarContent, pie, err, op, anchorIn, anchorOut, scaleIn, scaleOut,
          container, build>>

----------------------------------------------------------------------------
(* Bounds of the model *)

MaxRings == 3
MaxSubSlices == 3
MaxItems == 3
MaxWeights == 3
MaxWeight == 3
MaxOutOfRange == 40

----------------------------------------------------------------------------
(* Exact arithmetic *)

Abs(x) == IF x < 0 THEN -x ELSE x

RECURSIVE GCD(_, _)
GCD(a, b) == IF b = 0 THEN a ELSE GCD(b, a % b)

NaN == [n |-> 0, d |-> 0]
Undef == [n |-> 0, d |-> -1]

\* n/d in lowest terms; a zero denominator is the IEEE 0/0
Rat(n, d) ==
    IF d = 0 THEN NaN
    ELSE LET g == GCD(Abs(n), Abs(d))
             s == IF d < 0 THEN -1 ELSE 1
         IN  [n |-> s * (n \div g), d |-> s * (d \div g)]

Int2Rat(i) == [n |-> i, d |-> 1]
Zero == Int2Rat(0)

IsNum(a) == a.d > 0

RAdd(a, b) == IF IsNum(a) /\ IsNum(b) THEN Rat(a.n * b.d + b.n * a.d, a.d * b.d) ELSE NaN
RSub(a, b) == IF IsNum(a) /\ IsNum(b) THEN Rat(a.n * b.d - b.n * a.d, a.d * b.d) ELSE NaN
RMul(a, b) == IF IsNum(a) /\ IsNum(b) THEN Rat(a.n * b.n, a.d * b.d) ELSE NaN
RDiv(a, b) == IF IsNum(a) /\ IsNum(b) THEN Rat(a.n * b.d, a.d * b.n) ELSE NaN

\* comparisons are false as soon as one side is not a number, as in IEEE
RLt(a, b) == IsNum(a) /\ IsNum(b) /\ a.n * b.d < b.n * a.d
RLe(a, b) == IsNum(a) /\ IsNum(b) /\ a.n * b.d <= b.n * a.d
RGt(a, b) == RLt(b, a)
RGe(a, b) == RLe(b, a)
RMin(a, b) == IF RLt(b, a) THEN b ELSE a

\* the sequence with every element evaluated
Evaluated(s) == SubSeq(s, 1, Len(s))

RECURSIVE RSum(_)
RSum(s) == IF s = <<>> THEN Zero ELSE RAdd(Head(s), RSum(Tail(s)))

\* d3.sum(values, f): adds only the values that are numbers and not zero
RECURSIVE d3sum(_)
d3sum(s) ==
    IF s = <<>> THEN Zero
    ELSE IF IsNum(Head(s)) THEN RAdd(Head(s), d3sum(Tail(s))) ELSE d3sum(Tail(s))

----------------------------------------------------------------------------
(* Proportional Scaler: scaleProportional(weights, total, minimum) of      *)
(* ../utils, which RadarPie imports.  Each round clamps every item whose   *)
(* proportional share of the remaining budget is below the minimum, takes  *)
(* it out of the weighted pool and shrinks the budget by the minimum, until *)
(* no further item falls below the minimum or all items are clamped.  A    *)
(* zero-weight item has share zero, also in a pool of total weight zero.   *)

PoolWeight(w, clamped) ==
    RSum(Evaluated([i \in 1..Len(w) |-> IF i \in clamped THEN Zero ELSE w[i]]))

Remaining(w, total, m, clamped) ==
    RSub(total, RMul(m, Int2Rat(Cardinality(clamped))))

Share(w, total, m, clamped, i) ==
    LET S == PoolWeight(w, clamped)
    IN  IF S = Zero THEN Zero
        ELSE RDiv(RMul(w[i], Remaining(w, total, m, clamped)), S)

BelowFloor(w, total, m, clamped) ==
    {i \in (1..Len(w)) \ clamped : RLt(Share(w, total, m, clamped, i), m)}

\* faulty variant: a single clamping pass, shares are not recomputed for the rest
ScaleOneRound(w, total, m, clamped, rounds) ==
    [clamped |-> clamped \cup BelowFloor(w, total, m, clamped), rounds |-> rounds]

\* faulty variant: the loop does not stop when every item is clamped, and makes
\* one more round over the empty pool
RECURSIVE ScaleRoundsPastEmptyPool(_, _, _, _, _)
ScaleRoundsPastEmptyPool(w, total, m, clamped, rounds) ==
    LET low == BelowFloor(w, total, m, clamped)
    IN  IF low = {} THEN [clamped |-> clamped, rounds |-> rounds + 1]
        ELSE ScaleRoundsPastEmptyPool(w, total, m, clamped \cup low, rounds + 1)

\* the items clamped in the end, and the number of rounds made (rounds counts
\* the rounds so far)
RECURSIVE ScaleRounds(_, _, _, _, _)
ScaleRounds(w, total, m, clamped, rounds) ==
    IF clamped = 1..Len(w) THEN [clamped |-> clamped, rounds |-> rounds]
    ELSE LET low == BelowFloor(w, total, m, clamped)
         IN  IF low = {} THEN [clamped |-> clamped, rounds |-> rounds + 1]
             ELSE ScaleRounds(w, total, m, clamped \cup low, rounds + 1)

Clamped(w, total, m) == ScaleRounds(w, total, m, {}, 0).clamped

scaleProportional(w, total, m) ==
    LET c == Clamped(w, total, m)
    IN  Evaluated([i \in 1..Len(w) |-> IF i \in c THEN m ELSE Share(w, total, m, c, i)])

----------------------------------------------------------------------------
(* Configuration *)

DEFAULT_RADAR_PIE_CONFIG ==
    [ outerRadius               |-> Int2Rat(250),
      innerRadius               |-> Int2Rat(0),
      minSubSliceAngle          |-> Int2Rat(12),
      subSlicePadAngle          |-> Rat(1, 5),
      minRingRadius             |-> Int2Rat(30),
      ringPadding               |-> Int2Rat(0),
      ringMinOpacity            |-> Rat(1, 5),
      ringMaxOpacity            |-> Int2Rat(1),
      sliceDividerOutFlowLength |-> Int2Rat(0),
      sliceLabelDistance        |-> Int2Rat(60),
      subSliceLabelDistance     |-> Int2Rat(10),
      sliceLabelPadding         |-> Int2Rat(4),
      subSliceLabelPadding      |-> Int2Rat(2) ]

\* nestedAssign(defaults, config) of ../utils: the given fields override the defaults
nestedAssign(defaults, config) ==
    [f \in DOMAIN defaults |-> IF f \in DOMAIN config THEN config[f] ELSE defaults[f]]

\* The partial configurations a caller passes.  ThoughtWorksConfig is the "pie"
\* configuration of the repository's own example.
NoOverrides == [f \in {} |-> Zero]

ThoughtWorksConfig ==
    [ innerRadius               |-> Int2Rat(5),
      minSubSliceAngle          |-> Int2Rat(360),
      minRingRadius             |-> Int2Rat(50),
      ringPadding               |-> Int2Rat(4),
      sliceDividerOutFlowLength |-> Int2Rat(0 - 245),
      sliceLabelPadding         |-> Int2Rat(12),
      subSlicePadAngle          |-> Int2Rat(2) ]

PartialConfigs ==
    { NoOverrides,
      ThoughtWorksConfig,
      [minSubSliceAngle |-> Int2Rat(110), minRingRadius |-> Int2Rat(45)],
      [minSubSliceAngle |-> Zero, subSlicePadAngle |-> Zero, minRingRadius |-> Zero,
       ringMinOpacity |-> Rat(1, 2), ringMaxOpacity |-> Rat(1, 2)],
      [subSlicePadAngle |-> Int2Rat(200), ringPadding |-> Int2Rat(130),
       innerRadius |-> Int2Rat(10)] }

----------------------------------------------------------------------------
(* Label anchor classifier *)

H_CUT_OFF_DEGREE == 10
V_CUT_OFF_DEGREE == 45

\* !endAngle: true of undefined, 0 and NaN
Falsy(x) == x = Undef \/ x = Zero \/ x = NaN

AnchorRads(startOrMidAngle, endAngle) ==
    IF Falsy(endAngle) THEN startOrMidAngle
    ELSE RAdd(RDiv(RSub(endAngle, startOrMidAngle), Int2Rat(2)), startOrMidAngle)

\* faulty variant: the right section excludes its two boundary angles
HAnchorExclusive(rads) ==
    IF RGt(rads, Int2Rat(360 - H_CUT_OFF_DEGREE)) \/ RLt(rads, Int2Rat(H_CUT_OFF_DEGREE))
        THEN "middle"
    ELSE IF RGt(rads, Int2Rat(180 - H_CUT_OFF_DEGREE)) /\ RLt(rads, Int2Rat(180 + H_CUT_OFF_DEGREE))
        THEN "middle"
    ELSE IF RGt(rads, Int2Rat(H_CUT_OFF_DEGREE)) /\ RLt(rads, Int2Rat(180 - H_CUT_OFF_DEGREE))
        THEN "start"
    ELSE IF RGe(rads, Int2Rat(180 + H_CUT_OFF_DEGREE)) /\ RLe(rads, Int2Rat(360 - H_CUT_OFF_DEGREE))
        THEN "end"
    ELSE "throw"

HAnchor(rads) ==
    IF RGt(rads, Int2Rat(360 - H_CUT_OFF_DEGREE)) \/ RLt(rads, Int2Rat(H_CUT_OFF_DEGREE))
        THEN "middle"
    ELSE IF RGt(rads, Int2Rat(180 - H_CUT_OFF_DEGREE)) /\ RLt(rads, Int2Rat(180 + H_CUT_OFF_DEGREE))
        THEN "middle"
    ELSE IF RGe(rads, Int2Rat(H_CUT_OFF_DEGREE)) /\ RLe(rads, Int2Rat(180 - H_CUT_OFF_DEGREE))
        THEN "start"
    ELSE IF RGe(rads, Int2Rat(180 + H_CUT_OFF_DEGREE)) /\ RLe(rads, Int2Rat(360 - H_CUT_OFF_DEGREE))
        THEN "end"
    ELSE "throw"

VAnchor(rads) ==
    IF RGt(rads, Int2Rat(360 - V_CUT_OFF_DEGREE)) \/ RLt(rads, Int2Rat(V_CUT_OFF_DEGREE))
        THEN "baseline"
    ELSE IF RGt(rads, Int2Rat(180 - V_CUT_OFF_DEGREE)) /\ RLt(rads, Int2Rat(180 + V_CUT_OFF_DEGREE))
        THEN "hanging"
    ELSE IF RGe(rads, Int2Rat(V_CUT_OFF_DEGREE)) /\ RLe(rads, Int2Rat(180 - V_CUT_OFF_DEGREE))
        THEN "middle"
    ELSE IF RGe(rads, Int2Rat(180 + V_CUT_OFF_DEGREE)) /\ RLe(rads, Int2Rat(360 - V_CUT_OFF_DEGREE))
        THEN "middle"
    ELSE "throw"

NoAnchor == [hAnchor |-> "undefined", vAnchor |-> "undefined"]

\* the result of a call: the anchor returned, or the Error thrown
calculateAnchorPlacement(startOrMidAngle, endAngle) ==
    LET rads == AnchorRads(startOrMidAngle, endAngle)
        h == HAnchor(rads)
        v == VAnchor(rads)
    IN  IF h = "throw" \/ v = "throw"
        THEN [err |-> "Error", anchor |-> NoAnchor]
        ELSE [err |-> "none", anchor |-> [hAnchor |-> h, vAnchor |-> v]]

----------------------------------------------------------------------------
(* Content snapshot *)

RingId(level) == 101 + level
SubSliceId(q) == 200 + q
SliceId(q) == 300 + ((q + 1) \div 2)

NoArc ==
    [ startAngle |-> Undef, endAngle |-> Undef, padAngle |-> Undef,
      innerRadius |-> Undef, outerRadius |-> Undef ]

NoLabel ==
    [ labelPlacement |-> NoAnchor, bBoxPadding |-> Undef,
      dist |-> Undef, angle |-> Undef ]

NoSliceLabel ==
    [ labelPlacement |-> NoAnchor, bBoxPadding |-> Undef,
      dist |-> Undef, angle |-> Undef, midAngle |-> Undef,
      dividerFrom |-> Undef, dividerTo |-> Undef ]

NoItem == [x |-> Undef, y |-> Undef]

----------------------------------------------------------------------------
(* d3.pie().sort(null).value(...).padAngle(...) over the full circle *)

PiePad(n, padAngle) == RMin(RDiv(Int2Rat(360), Int2Rat(n)), padAngle)

PieSum(values) ==
    RSum(Evaluated([i \in 1..Len(values) |-> IF RGt(values[i], Zero) THEN values[i] ELSE Zero]))

PieK(values, padAngle) ==
    LET n == Len(values)
        sum == PieSum(values)
    IN  IF IsNum(sum) /\ sum # Zero
        THEN RDiv(RSub(Int2Rat(360), RMul(Int2Rat(n), PiePad(n, padAngle))), sum)
        ELSE Zero

RECURSIVE PieEnd(_, _, _, _)
\* the endAngle of arc i, which is the startAngle of arc i + 1
PieEnd(values, k, pa, i) ==
    IF i = 0 THEN Zero
    ELSE LET v == values[i]
             grow == IF RGt(v, Zero) THEN RMul(v, k) ELSE Zero
         IN  RAdd(RAdd(PieEnd(values, k, pa, i - 1), grow), pa)

\* faulty variant: without .sort(null) d3.pie hands out the angles by descending value
PieArcsByValue(values, padAngle) ==
    LET k == PieK(values, padAngle)
        pa == PiePad(Len(values), padAngle)
        grow(i) == IF RGt(values[i], Zero) THEN RMul(values[i], k) ELSE Zero
        ahead(i) == {j \in 1..Len(values) :
                        RGt(values[j], values[i]) \/ (values[j] = values[i] /\ j < i)}
        start(i) == RSum(Evaluated([j \in 1..Len(values) |->
                            IF j \in ahead(i) THEN RAdd(grow(j), pa) ELSE Zero]))
    IN  Evaluated([ i \in 1..Len(values) |->
            [ startAngle |-> start(i),
              endAngle   |-> RAdd(RAdd(start(i), grow(i)), pa),
              padAngle   |-> pa ] ])

PieArcs(values, padAngle) ==
    LET k == PieK(values, padAngle)
        pa == PiePad(Len(values), padAngle)
    IN  Evaluated([ i \in 1..Len(values) |->
            [ startAngle |-> PieEnd(values, k, pa, i - 1),
              endAngle   |-> PieEnd(values, k, pa, i),
              padAngle   |-> pa ] ])

----------------------------------------------------------------------------
(* new RadarPie(radarContentInput, config) *)

\* Math.PI as the fraction PiNum / PiDen
PiNum == 22
PiDen == 7

\* faulty variant: the square grows with the level instead of shrinking
RingWeightsOuterHeavy(rings) ==
    Evaluated([ i \in 1..Len(rings) |-> Rat(rings[i].itemCount * i * i * PiNum, PiDen) ])

RingWeights(rings) ==
    Evaluated([ i \in 1..Len(rings) |->
        Rat(rings[i].itemCount * (Len(rings) - (i - 1)) * (Len(rings) - (i - 1)) * PiNum, PiDen) ])

\* faulty variant: the padding between the rings is not taken off the budget
AvailableRadiusNoPadding(rings, config) ==
    RSub(config.outerRadius, config.innerRadius)

AvailableRadius(rings, config) ==
    RSub(RSub(config.outerRadius, config.innerRadius),
         RMul(config.ringPadding, Int2Rat(Len(rings) - 1)))

ScaledRadiuses(rings, config) ==
    scaleProportional(RingWeights(rings), AvailableRadius(rings, config), config.minRingRadius)

RingOpacity(n, ringLevel, config) ==
    RAdd(RDiv(RMul(RSub(config.ringMaxOpacity, config.ringMinOpacity),
                   Int2Rat(n - ringLevel - 1)),
              Int2Rat(n - 1)),
         config.ringMinOpacity)

\* faulty variant: the padding between the rings is left out of the stacking
RingInnerRadiusNoPadding(rings, ringLevel, config) ==
    RAdd(config.innerRadius,
         d3sum(Evaluated([ i \in 1..Len(rings) |->
                   IF i - 1 < ringLevel THEN rings[i].radius ELSE Zero ])))

\* d3.sum(rings, (r, idx) => idx < ringLevel ? r.radius + ringPadding : 0)
RingInnerRadius(rings, ringLevel, config) ==
    RAdd(config.innerRadius,
         d3sum(Evaluated([ i \in 1..Len(rings) |->
                   IF i - 1 < ringLevel THEN RAdd(rings[i].radius, config.ringPadding)
                   ELSE Zero ])))

\* one iteration of rings.forEach((ring, ringLevel) => ...)
RingStep(rings, scaled, ringLevel, config) ==
    [ rings EXCEPT ![ringLevel + 1] =
        [ @ EXCEPT !.opacity = RingOpacity(Len(rings), ringLevel, config),
                   !.innerRadius = RingInnerRadius(rings, ringLevel, config),
                   !.radius = scaled[ringLevel + 1] ] ]

RECURSIVE RingsForEach(_, _, _, _)
RingsForEach(rings, scaled, ringLevel, config) ==
    IF ringLevel >= Len(rings) THEN rings
    ELSE RingsForEach(RingStep(rings, scaled, ringLevel, config), scaled, ringLevel + 1, config)

LayoutRings(rings, config) ==
    RingsForEach(rings, ScaledRadiuses(rings, config), 0, config)

\* faulty variant: the minimum angle is not passed to the scaler
ScaledSubSlicesNoFloor(subSlices, config) ==
    scaleProportional(Evaluated([i \in 1..Len(subSlices) |-> Int2Rat(subSlices[i].itemCount)]),
                      Int2Rat(360), Zero)

ScaledSubSlices(subSlices, config) ==
    scaleProportional(Evaluated([i \in 1..Len(subSlices) |-> Int2Rat(subSlices[i].itemCount)]),
                      Int2Rat(360), config.minSubSliceAngle)

\* faulty variant: the sub-slice arcs start at the centre
SubSliceArcsFromCentre(subSlices, config) ==
    LET arcs == PieArcs(ScaledSubSlices(subSlices, config), config.subSlicePadAngle)
    IN  Evaluated([ i \in 1..Len(subSlices) |->
            [ startAngle  |-> arcs[i].startAngle,
              endAngle    |-> arcs[i].endAngle,
              padAngle    |-> arcs[i].padAngle,
              innerRadius |-> Zero,
              outerRadius |-> config.outerRadius ] ])

SubSliceArcs(subSlices, config) ==
    LET arcs == PieArcs(ScaledSubSlices(subSlices, config), config.subSlicePadAngle)
    IN  Evaluated([ i \in 1..Len(subSlices) |->
            [ startAngle  |-> arcs[i].startAngle,
              endAngle    |-> arcs[i].endAngle,
              padAngle    |-> arcs[i].padAngle,
              innerRadius |-> config.innerRadius,
              outerRadius |-> config.outerRadius ] ])

\* array.find((e) => e.id === id): the index of the first match, 0 for undefined
FindById(seq, id) ==
    LET hits == {i \in 1..Len(seq) : seq[i].id = id}
    IN  IF hits = {} THEN 0 ELSE CHOOSE i \in hits : \A j \in hits : i <= j

\* faulty variant: outerRadius is the ring's radius, not innerRadius + radius
SegmentStepRadiusOnly(st, s, q, g) ==
    LET c == st.content
        segment == c.slices[s].subSlices[q].segments[g]
        arcParams == c.slices[s].subSlices[q].arcParams
        r == FindById(c.rings, segment.ringId)
    IN  IF r = 0 \/ segment.ringLevel + 1 \notin 1..Len(c.rings)
        THEN [st EXCEPT !.err = "TypeError"]
        ELSE [ st EXCEPT !.content.slices[s].subSlices[q].segments[g].arcParams =
                 [ startAngle  |-> arcParams.startAngle,
                   endAngle    |-> arcParams.endAngle,
                   padAngle    |-> arcParams.padAngle,
                   innerRadius |-> c.rings[segment.ringLevel + 1].innerRadius,
                   outerRadius |-> c.rings[r].radius ] ]

\* faulty variant: a ring that is not found is read with ?. and yields undefined
SegmentStepLenient(st, s, q, g) ==
    LET c == st.content
        segment == c.slices[s].subSlices[q].segments[g]
        arcParams == c.slices[s].subSlices[q].arcParams
        r == FindById(c.rings, segment.ringId)
        ringRadius == IF r = 0 THEN Undef ELSE c.rings[r].radius
        ringInnerRadius == c.rings[segment.ringLevel + 1].innerRadius
    IN  [ st EXCEPT !.content.slices[s].subSlices[q].segments[g].arcParams =
            [ startAngle  |-> arcParams.startAngle,
              endAngle    |-> arcParams.endAngle,
              padAngle    |-> arcParams.padAngle,
              innerRadius |-> ringInnerRadius,
              outerRadius |-> RAdd(ringInnerRadius, ringRadius) ] ]

\* one iteration of subSlice.segments.forEach((segment) => ...); st is the content
\* so far and the error thrown, if any
SegmentStep(st, s, q, g) ==
    LET c == st.content
        segment == c.slices[s].subSlices[q].segments[g]
        arcParams == c.slices[s].subSlices[q].arcParams
        r == FindById(c.rings, segment.ringId)
    IN  IF r = 0 \/ segment.ringLevel + 1 \notin 1..Len(c.rings)
        THEN [st EXCEPT !.err = "TypeError"]
        ELSE LET ringRadius == c.rings[r].radius
                 ringInnerRadius == c.rings[segment.ringLevel + 1].innerRadius
             IN  [ st EXCEPT !.content.slices[s].subSlices[q].segments[g].arcParams =
                     [ startAngle  |-> arcParams.startAngle,
                       endAngle    |-> arcParams.endAngle,
                       padAngle    |-> arcParams.padAngle,
                       innerRadius |-> ringInnerRadius,
                       outerRadius |-> RAdd(ringInnerRadius, ringRadius) ] ]

RECURSIVE SegmentsForEach(_, _, _, _)
SegmentsForEach(st, s, q, g) ==
    IF st.err # "none" \/ g > Len(st.content.slices[s].subSlices[q].segments) THEN st
    ELSE SegmentsForEach(SegmentStep(st, s, q, g), s, q, g + 1)

SubSliceLabel(arcParams, config) ==
    LET placed == calculateAnchorPlacement(arcParams.startAngle, arcParams.endAngle)
    IN  [ err |-> placed.err,
          labelData |->
            [ labelPlacement |-> placed.anchor,
              bBoxPadding |-> config.subSliceLabelPadding,
              dist  |-> RAdd(arcParams.outerRadius, config.subSliceLabelDistance),
              angle |-> RAdd(RDiv(RSub(arcParams.endAngle, arcParams.startAngle), Int2Rat(2)),
                             arcParams.startAngle) ] ]

\* one iteration of subSliceArcs.forEach((arc) => ...)
ArcStep(st, arcs, a, config) ==
    LET c == st.content
        data == c.subSlices[a]
        s == FindById(c.slices, data.sliceId)
        q == IF s = 0 THEN 0 ELSE FindById(c.slices[s].subSlices, data.id)
        label == SubSliceLabel(arcs[a], config)
    IN  IF s = 0 \/ q = 0 THEN [st EXCEPT !.err = "TypeError"]
        ELSE IF label.err # "none"
        THEN [st EXCEPT !.content.slices[s].subSlices[q].arcParams = arcs[a],
                        !.err = label.err]
        ELSE SegmentsForEach(
                [st EXCEPT !.content.slices[s].subSlices[q].arcParams = arcs[a],
                           !.content.slices[s].subSlices[q].labelData = label.labelData],
                s, q, 1)

RECURSIVE ArcsForEach(_, _, _, _)
ArcsForEach(st, arcs, a, config) ==
    IF st.err # "none" \/ a > Len(arcs) THEN st
    ELSE ArcsForEach(ArcStep(st, arcs, a, config), arcs, a + 1, config)

\* one iteration of slices.forEach((slice) => ...)
SliceStep(st, s, config) ==
    LET slice == st.content.slices[s]
    IN  IF Len(slice.subSlices) = 0 THEN [st EXCEPT !.err = "TypeError"]
        ELSE LET firstArcParams == slice.subSlices[1].arcParams
                 lastArcParams == slice.subSlices[Len(slice.subSlices)].arcParams
                 midAngle == RAdd(firstArcParams.startAngle,
                                  RDiv(RSub(lastArcParams.endAngle, firstArcParams.startAngle),
                                       Int2Rat(2)))
                 placed == calculateAnchorPlacement(midAngle, Undef)
             IN  IF placed.err # "none" THEN [st EXCEPT !.err = placed.err]
                 ELSE [ st EXCEPT !.content.slices[s].labelData =
                          [ labelPlacement |-> placed.anchor,
                            bBoxPadding |-> config.sliceLabelPadding,
                            dist |-> RAdd(firstArcParams.outerRadius, config.sliceLabelDistance),
                            angle |-> midAngle,
                            midAngle |-> midAngle,
                            dividerFrom |-> firstArcParams.innerRadius,
                            dividerTo |-> RAdd(firstArcParams.outerRadius,
                                               config.sliceDividerOutFlowLength) ] ]

RECURSIVE SlicesForEach(_, _, _)
SlicesForEach(st, s, config) ==
    IF st.err # "none" \/ s > Len(st.content.slices) THEN st
    ELSE SlicesForEach(SliceStep(st, s, config), s + 1, config)

\* the constructor body: the content it leaves behind and the error it throws
RadarPieConstructor(content, partialConfig) ==
    LET config == nestedAssign(DEFAULT_RADAR_PIE_CONFIG, partialConfig)
        withRings == [content EXCEPT !.rings = LayoutRings(content.rings, config)]
        arcs == SubSliceArcs(withRings.subSlices, config)
        withArcs == ArcsForEach([content |-> withRings, err |-> "none"], arcs, 1, config)
    IN  SlicesForEach(withArcs, 1, config)

----------------------------------------------------------------------------
(* The snapshots the data source hands over: n rings, k sub-slices grouped *)
(* two to a slice, one segment per sub-slice and ring.  The items are      *)
(* listed by sub-slice (placement[j] is the sub-slice of item j) and go    *)
(* round the rings; every itemCount is the number of items of the ring or  *)
(* sub-slice.  A fault makes one reference dangle: the sliceId of          *)
(* sub-slice fault.q, or the ringId of its segment at level fault.r - 1.   *)

NoFault == [kind |-> "none", q |-> 0, r |-> 0]

Faults(n, k) ==
    {NoFault}
    \cup {[kind |-> "slice", q |-> q, r |-> 0] : q \in 1..k}
    \cup {[kind |-> "ring", q |-> q, r |-> r] : q \in 1..k, r \in {1, n}}

RingOf(n, placement, j) == ((placement[j] + j) % n) + 1

ItemsIn(n, placement, q, r) ==
    Cardinality({j \in DOMAIN placement : placement[j] = q /\ RingOf(n, placement, j) = r})

SnapshotSubSlice(n, placement, fault, q) ==
    [ id        |-> SubSliceId(q),
      arcParams |-> NoArc,
      labelData |-> NoLabel,
      segments  |->
        [ r \in 1..n |->
            [ ringId    |-> IF fault.kind = "ring" /\ fault.q = q /\ fault.r = r
                            THEN 0 ELSE RingId(r - 1),
              ringLevel |-> r - 1,
              arcParams |-> NoArc,
              items     |-> [j \in 1..ItemsIn(n, placement, q, r) |-> NoItem] ] ] ]

Snapshot(n, k, placement, fault) ==
    [ rings |->
        [ r \in 1..n |->
            [ id          |-> RingId(r - 1),
              itemCount   |-> Cardinality({j \in DOMAIN placement : RingOf(n, placement, j) = r}),
              opacity     |-> Undef,
              innerRadius |-> Undef,
              radius      |-> Undef ] ],
      subSlices |->
        [ q \in 1..k |->
            [ id        |-> SubSliceId(q),
              sliceId   |-> IF fault.kind = "slice" /\ fault.q = q THEN 0 ELSE SliceId(q),
              itemCount |-> Cardinality({j \in DOMAIN placement : placement[j] = q}) ] ],
      slices |->
        [ s \in 1..((k + 1) \div 2) |->
            [ id        |-> 300 + s,
              labelData |-> NoSliceLabel,
              subSlices |->
                [ i \in 1..(IF 2 * s <= k THEN 2 ELSE 1) |->
                    SnapshotSubSlice(n, placement, fault, 2 * (s - 1) + i) ] ] ] ]

Placements(k) ==
    UNION { {p \in [1..t -> 1..k] : \A i \in 1..t, j \in 1..t : i < j => p[i] <= p[j]}
            : t \in 0..MaxItems }

Snapshots ==
    UNION { UNION { UNION {
        { Snapshot(n, k, placement, fault) :
            fault \in IF placement = [j \in 1..MaxItems |-> 1]
                      THEN Faults(n, k) ELSE {NoFault} }
        : placement \in Placements(k) }
        : k \in 1..MaxSubSlices }
        : n \in 1..MaxRings }

NoPie == [built |-> FALSE, config |-> DEFAULT_RADAR_PIE_CONFIG]
NoPlacement == [err |-> "none", anchor |-> NoAnchor]
NoScaleIn == [weights |-> <<>>, total |-> Zero, minimum |-> Zero]

\* a RadarContainer right after its constructor, and no appendTo call yet
NoContainer == [dataSource |-> FALSE, radarContent |-> FALSE, fetch |-> "idle", pie |-> NoOverrides]

NoBuild ==
    [ pc |-> "idle", fetched |-> FALSE, s |-> 0, q |-> 0, g |-> 0, pieElements |-> 0,
      appended |-> {}, arrangeLabels |-> "no", scaleToFit |-> FALSE ]

----------------------------------------------------------------------------
(* RadarPie construction *)

Init ==
    /\ radarContent \in Snapshots
    /\ pie = NoPie
    /\ err = "none"
    /\ op = "init"
    /\ anchorIn = <<Undef, Undef>>
    /\ anchorOut = NoPlacement
    /\ scaleIn = NoScaleIn
    /\ scaleOut = <<>>
    /\ container = NoContainer
    /\ build = NoBuild

\* new RadarPie(radarContent, partialConfig): the snapshot is annotated in place,
\* up to the statement that throws
Construct(partialConfig) ==
    LET done == RadarPieConstructor(radarContent, partialConfig)
    IN  /\ radarContent' = done.content
        /\ err' = done.err
        /\ pie' = IF done.err = "none"
                  THEN [built |-> TRUE,
                        config |-> nestedAssign(DEFAULT_RADAR_PIE_CONFIG, partialConfig)]
                  ELSE NoPie
        /\ op' = "construct"
        /\ UNCHANGED <<anchorIn, anchorOut, scaleIn, scaleOut, container, build>>

Next == \E partialConfig \in PartialConfigs : Construct(partialConfig)

Spec == Init /\ [][Next]_vars

----------------------------------------------------------------------------
(* The classifier on its own *)

AnchorAngles ==
    {Rat(h, 2) : h \in (0 - 2 * MaxOutOfRange)..(2 * (360 + MaxOutOfRange))} \cup {NaN}

ArcAngles == {Int2Rat(15 * i) : i \in 0..24}

AnchorInputs ==
    {<<a, Undef>> : a \in AnchorAngles}
    \cup {<<a, b>> \in ArcAngles \X ArcAngles : RLe(a, b)}

InitAnchor ==
    /\ radarContent = Snapshot(1, 1, <<>>, NoFault)
    /\ pie = NoPie
    /\ err = "none"
    /\ op = "init"
    /\ anchorIn \in AnchorInputs
    /\ anchorOut = NoPlacement
    /\ scaleIn = NoScaleIn
    /\ scaleOut = <<>>
    /\ container = NoContainer
    /\ build = NoBuild

Classify ==
    /\ op = "init"
    /\ anchorOut' = calculateAnchorPlacement(anchorIn[1], anchorIn[2])
    /\ err' = anchorOut'.err
    /\ op' = "classify"
    /\ UNCHANGED <<radarContent, pie, anchorIn, scaleIn, scaleOut, container, build>>

NextAnchor == Classify

SpecAnchor == InitAnchor /\ [][NextAnchor]_vars

----------------------------------------------------------------------------
(* The scaler on its own *)

WeightLists == UNION {[1..n -> {Int2Rat(x) : x \in 0..MaxWeight}] : n \in 0..MaxWeights}

ScaleInputs ==
    [ weights : WeightLists,
      total   : {Int2Rat(12), Int2Rat(36)},
      minimum : {Int2Rat(x) : x \in {0, 3, 4, 5, 7, 11, 13}} ]

InitScale ==
    /\ radarContent = Snapshot(1, 1, <<>>, NoFault)
    /\ pie = NoPie
    /\ err = "none"
    /\ op = "init"
    /\ anchorIn = <<Undef, Undef>>
    /\ anchorOut = NoPlacement
    /\ scaleIn \in ScaleInputs
    /\ scaleOut = <<>>
    /\ container = NoContainer
    /\ build = NoBuild

Scale ==
    /\ op = "init"
    /\ scaleOut' = scaleProportional(scaleIn.weights, scaleIn.total, scaleIn.minimum)
    /\ op' = "scale"
    /\ UNCHANGED <<radarContent, pie, err, anchorIn, anchorOut, scaleIn, container, build>>

NextScale == Scale

SpecScale == InitScale /\ [][NextScale]_vars

----------------------------------------------------------------------------
(* new RadarSegment(segment, rings)                                        *)
(* A coordinate is kept as the expression that yields it: the cosine or    *)
(* sine of an angle times a radius, or a coordinate of the idx-th of the n *)
(* points that distributePointsWithinBoundary (../geometricUtils) returns  *)
(* for a boundary.                                                         *)

SYMBOL_BOUND_RADIUS == 6
PADDING_ANGLE == 2
PAD_INNER_RADIUS == SYMBOL_BOUND_RADIUS
PAD_OUTER_RADIUS == 0 - SYMBOL_BOUND_RADIUS

\* d3.arc().centroid(arcParams): [cos(a) * r, sin(a) * r] with r the mean radius
\* and a the mean angle turned by a quarter circle
ArcCentroid(arcParams) ==
    LET r == RDiv(RAdd(arcParams.innerRadius, arcParams.outerRadius), Int2Rat(2))
        a == RSub(RDiv(RAdd(arcParams.startAngle, arcParams.endAngle), Int2Rat(2)),
                  Int2Rat(90))
    IN  <<[fn |-> "cos", r |-> r, a |-> a], [fn |-> "sin", r |-> r, a |-> a]>>

\* the arc whose flattened outline is the boundary polygon
getItemBoundaryArc(arcParams, paddingAngle, padInnerRadius, padOuterRadius) ==
    [ arcParams EXCEPT !.padAngle = RAdd(@, paddingAngle),
                       !.innerRadius = RAdd(@, padInnerRadius),
                       !.outerRadius = RAdd(@, padOuterRadius) ]

\* distributePointsWithinBoundary(boundary, n): n points, in a fixed order
distributePointsWithinBoundary(boundary, n) ==
    [ idx \in 1..n |->
        << [fn |-> "px", boundary |-> boundary, n |-> n, idx |-> idx],
           [fn |-> "py", boundary |-> boundary, n |-> n, idx |-> idx] >> ]

\* faulty variant: a single item is distributed like any other number of items
PlaceItemsNoCentroid(segment) ==
    LET boundary == getItemBoundaryArc(segment.arcParams, Int2Rat(PADDING_ANGLE),
                        Int2Rat(PAD_INNER_RADIUS), Int2Rat(PAD_OUTER_RADIUS))
        points == distributePointsWithinBoundary(boundary, Len(segment.items))
    IN  [ idx \in 1..Len(segment.items) |->
            [segment.items[idx] EXCEPT !.x = points[idx][1], !.y = points[idx][2]] ]

\* the items of the segment once the constructor has placed them
PlaceItems(segment) ==
    LET arcCentroid == ArcCentroid(segment.arcParams)
        boundary == getItemBoundaryArc(segment.arcParams, Int2Rat(PADDING_ANGLE),
                        Int2Rat(PAD_INNER_RADIUS), Int2Rat(PAD_OUTER_RADIUS))
    IN  IF Len(segment.items) = 1
        THEN <<[segment.items[1] EXCEPT !.x = arcCentroid[1], !.y = arcCentroid[2]]>>
        ELSE IF Len(segment.items) > 0
        THEN LET points == distributePointsWithinBoundary(boundary, Len(segment.items))
             IN  [ idx \in 1..Len(segment.items) |->
                     [segment.items[idx] EXCEPT !.x = points[idx][1], !.y = points[idx][2]] ]
        ELSE segment.items

\* the constructor: the segment it leaves behind and the error it throws
RadarSegmentConstructor(segment, rings) ==
    IF segment.ringLevel + 1 \notin 1..Len(rings)
    THEN [segment |-> segment, err |-> "TypeError"]
    ELSE [segment |-> [segment EXCEPT !.items = PlaceItems(segment)], err |-> "none"]

----------------------------------------------------------------------------
(* RadarContainer: fetchData and appendTo.  Both are async functions of    *)
(* one thread: a call runs from one await to the next without interleaving *)
(* and the other call moves only while this one is suspended or over.      *)
(* radarContent is the content the data source hands over;                 *)
(* container.radarContent tells whether the container refers to it yet.    *)

MaxBuildRings == 2
MaxBuildSubSlices == 2

BuildSnapshots ==
    UNION { UNION {
        { Snapshot(n, k, placement, NoFault) : placement \in Placements(k) }
        : k \in 1..MaxBuildSubSlices }
        : n \in 1..MaxBuildRings }

BuildConfigs == {NoOverrides, ThoughtWorksConfig}

InitBuild ==
    /\ radarContent \in BuildSnapshots
    /\ pie = NoPie
    /\ err = "none"
    /\ op = "init"
    /\ anchorIn = <<Undef, Undef>>
    /\ anchorOut = NoPlacement
    /\ scaleIn = NoScaleIn
    /\ scaleOut = <<>>
    /\ container \in {[NoContainer EXCEPT !.pie = config] : config \in BuildConfigs}
    /\ build = NoBuild

\* appendTo is not in the middle of a synchronous stretch
Suspended == build.pc \in {"idle", "arranging", "done", "failed"}

\* fetchData up to its await
FetchData ==
    /\ Suspended
    /\ container.fetch = "idle"
    /\ container' = [container EXCEPT !.dataSource = TRUE, !.fetch = "pending"]
    /\ op' = "fetchData"
    /\ UNCHANGED <<radarContent, pie, err, anchorIn, anchorOut, scaleIn, scaleOut, build>>

\* fetchData from its await on: the data source has the content
FetchDataResume ==
    /\ Suspended
    /\ container.fetch = "pending"
    /\ container' = [container EXCEPT !.radarContent = TRUE, !.fetch = "done"]
    /\ op' = "fetchData"
    /\ UNCHANGED <<radarContent, pie, err, anchorIn, anchorOut, scaleIn, scaleOut, build>>

\* appendTo up to the container group: the svg element, then the guard
AppendTo ==
    /\ build.pc = "idle"
    /\ IF ~container.dataSource /\ ~container.radarContent
       THEN /\ err' = "RadarError"
            /\ build' = [build EXCEPT !.pc = "failed", !.fetched = container.radarContent]
       ELSE /\ err' = "none"
            /\ build' = [build EXCEPT !.pc = "newRadarPie", !.fetched = container.radarContent]
    /\ op' = "appendTo"
    /\ UNCHANGED <<radarContent, pie, anchorIn, anchorOut, scaleIn, scaleOut, container>>

\* this.radarPie = new RadarPie(this.radarContent, this.config.pie); without
\* content the constructor throws where it first reads a field of it
NewRadarPie ==
    /\ build.pc = "newRadarPie"
    /\ IF ~container.radarContent
       THEN /\ err' = "TypeError"
            /\ build' = [build EXCEPT !.pc = "failed"]
            /\ UNCHANGED <<radarContent, pie>>
       ELSE LET done == RadarPieConstructor(radarContent, container.pie)
            IN  /\ radarContent' = done.content
                /\ err' = done.err
                /\ pie' = IF done.err = "none"
                          THEN [built |-> TRUE,
                                config |-> nestedAssign(DEFAULT_RADAR_PIE_CONFIG, container.pie)]
                          ELSE NoPie
                /\ build' = [build EXCEPT !.pc = IF done.err = "none" THEN "getElement"
                                                 ELSE "failed"]
    /\ op' = "construct"
    /\ UNCHANGED <<anchorIn, anchorOut, scaleIn, scaleOut, container>>

\* getElement up to the sub-slice labels: the pie group and its four layer groups,
\* a group, a label (svg and text) and a separator line for every slice, a label
\* for every sub-slice
PieGetElement ==
    /\ build.pc = "getElement"
    /\ build' = [build EXCEPT !.pc = "segments", !.s = 1, !.q = 1, !.g = 1,
                              !.pieElements = 5 + 4 * Len(radarContent.slices)
                                              + 2 * Len(radarContent.subSlices)]
    /\ op' = "getElement"
    /\ UNCHANGED <<radarContent, pie, err, anchorIn, anchorOut, scaleIn, scaleOut, container>>

\* the segment after (s, q, g) in the order of the three nested loops
NextSegment(content, s, q, g) ==
    IF g < Len(content.slices[s].subSlices[q].segments) THEN [s |-> s, q |-> q, g |-> g + 1]
    ELSE IF q < Len(content.slices[s].subSlices) THEN [s |-> s, q |-> q + 1, g |-> 1]
    ELSE IF s < Len(content.slices) THEN [s |-> s + 1, q |-> 1, g |-> 1]
    ELSE [s |-> 0, q |-> 0, g |-> 0]

\* one segment of getElement: the groups of the slice's sub-slices when the slice
\* is entered, new RadarSegment(segment, rings), the item markers, the segment arc
NewRadarSegment ==
    /\ build.pc = "segments"
    /\ LET s == build.s
           q == build.q
           g == build.g
           segment == radarContent.slices[s].subSlices[q].segments[g]
           done == RadarSegmentConstructor(segment, radarContent.rings)
           next == NextSegment(radarContent, s, q, g)
           groups == IF q = 1 /\ g = 1 THEN Len(radarContent.slices[s].subSlices) ELSE 0
           markers == IF Len(segment.items) > 0 THEN 2 ELSE 0
       IN  /\ radarContent' =
                [radarContent EXCEPT !.slices[s].subSlices[q].segments[g] = done.segment]
           /\ err' = done.err
           /\ build' =
                IF done.err # "none"
                THEN [build EXCEPT !.pc = "failed", !.pieElements = @ + groups]
                ELSE [build EXCEPT !.pc = IF next.s = 0 THEN "appendPie" ELSE "segments",
                                   !.s = next.s, !.q = next.q, !.g = next.g,
                                   !.pieElements = @ + groups + markers + 2]
    /\ op' = "newRadarSegment"
    /\ UNCHANGED <<pie, anchorIn, anchorOut, scaleIn, scaleOut, container>>

\* radarContainerGroup.append(() => this.radarPie.getElement().node())
AppendPie ==
    /\ build.pc = "appendPie"
    /\ build' = [build EXCEPT !.pc = "itemLegend", !.appended = @ \cup {"radarPie"}]
    /\ op' = "appendTo"
    /\ UNCHANGED <<radarContent, pie, err, anchorIn, anchorOut, scaleIn, scaleOut, container>>

AppendItemLegend ==
    /\ build.pc = "itemLegend"
    /\ build' = [build EXCEPT !.pc = "ringLegend", !.appended = @ \cup {"itemLegend"}]
    /\ op' = "appendTo"
    /\ UNCHANGED <<radarContent, pie, err, anchorIn, anchorOut, scaleIn, scaleOut, container>>

AppendRingLegend ==
    /\ build.pc = "ringLegend"
    /\ build' = [build EXCEPT !.pc = "arrangeLabels", !.appended = @ \cup {"ringLegend"}]
    /\ op' = "appendTo"
    /\ UNCHANGED <<radarContent, pie, err, anchorIn, anchorOut, scaleIn, scaleOut, container>>

\* await arrangeLabels(radarContainerGroup): the call, which suspends appendTo
ArrangeLabels ==
    /\ build.pc = "arrangeLabels"
    /\ build' = [build EXCEPT !.pc = "arranging", !.arrangeLabels = "running"]
    /\ op' = "arrangeLabels"
    /\ UNCHANGED <<radarContent, pie, err, anchorIn, anchorOut, scaleIn, scaleOut, container>>

\* the promise of arrangeLabels resolves
ArrangeLabelsDone ==
    /\ build.pc = "arranging"
    /\ build.arrangeLabels = "running"
    /\ build' = [build EXCEPT !.arrangeLabels = "done"]
    /\ op' = "arrangeLabels"
    /\ UNCHANGED <<radarContent, pie, err, anchorIn, anchorOut, scaleIn, scaleOut, container>>

\* appendTo from its await on: RadarContainer.scaleToFit(...) and the return
ScaleToFit ==
    /\ build.pc = "arranging"
    /\ build.arrangeLabels = "done"
    /\ build' = [build EXCEPT !.pc = "done", !.scaleToFit = TRUE]
    /\ op' = "scaleToFit"
    /\ UNCHANGED <<radarContent, pie, err, anchorIn, anchorOut, scaleIn, scaleOut, container>>

NextBuild ==
    \/ FetchData
    \/ FetchDataResume
    \/ AppendTo
    \/ NewRadarPie
    \/ PieGetElement
    \/ NewRadarSegment
    \/ AppendPie
    \/ AppendItemLegend
    \/ AppendRingLegend
    \/ ArrangeLabels
    \/ ArrangeLabelsDone
    \/ ScaleToFit

SpecBuild == InitBuild /\ [][NextBuild]_vars

----------------------------------------------------------------------------
(* Properties of RadarPie construction (checked under Spec) *)

Built == op = "construct" /\ err = "none" /\ pie.built

Rings == radarContent.rings
RingCount == Len(radarContent.rings)
SubSliceCount == Len(radarContent.subSlices)

\* the annotated sub-slice of the a-th entry of the input sub-slice list
TreeSubSlice(a) ==
    LET data == radarContent.subSlices[a]
        slice == radarContent.slices[FindById(radarContent.slices, data.sliceId)]
    IN  slice.subSlices[FindById(slice.subSlices, data.id)]

ArcOf(a) == TreeSubSlice(a).arcParams
Span(a) == RSub(ArcOf(a).endAngle, ArcOf(a).startAngle)

Contiguous ==
    /\ ArcOf(1).startAngle = Zero
    /\ \A a \in 1..(SubSliceCount - 1) : ArcOf(a).endAngle = ArcOf(a + 1).startAngle

FullCircle ==
    /\ ArcOf(SubSliceCount).endAngle = Int2Rat(360)
    /\ RSum([a \in 1..SubSliceCount |-> Span(a)]) = Int2Rat(360)

SomeItem == \E a \in 1..SubSliceCount : radarContent.subSlices[a].itemCount > 0

\* C1 as stated: after construction the sub-slice arcs, in the order of the input
\* sub-slice list, start at 0, follow one another without gap and end at 360
\* degrees, whatever the item counts
C1_PartitionAlways == Built => Contiguous /\ FullCircle

\* C1 amended: the arcs always start at 0 and follow one another in input order;
\* they end at 360 degrees and their spans add up to 360 degrees when some
\* sub-slice has an item or minSubSliceAngle is positive
C1_Partition ==
    Built => /\ Contiguous
             /\ (SomeItem \/ RGt(pie.config.minSubSliceAngle, Zero)) => FullCircle

\* C1 witness: three sub-slices of different size, laid out in input order although
\* the first is the smallest and the last the largest
C1_Witness ==
    /\ Built
    /\ SubSliceCount = 3
    /\ Contiguous /\ FullCircle
    /\ RLt(Span(1), Span(2)) /\ RLt(Span(2), Span(3))

FloorFits ==
    RLe(RMul(pie.config.minSubSliceAngle, Int2Rat(SubSliceCount)), Int2Rat(360))

\* C2: when minSubSliceAngle x (number of sub-slices) <= 360, every sub-slice spans
\* at least minSubSliceAngle, also one without items and whatever the pad angle
C2_MinSpan ==
    (Built /\ FloorFits) =>
        \A a \in 1..SubSliceCount : RGe(Span(a), pie.config.minSubSliceAngle)

\* C2 witness: a sub-slice without items is lifted to a floor of 110 degrees that
\* its proportional share (0) would miss, beside a larger sub-slice
C2_Witness ==
    /\ Built /\ FloorFits
    /\ pie.config.minSubSliceAngle = Int2Rat(110)
    /\ \E a, b \in 1..SubSliceCount :
         /\ radarContent.subSlices[a].itemCount = 0
         /\ RGe(Span(a), Int2Rat(110)) /\ RLt(Span(a), Int2Rat(111))
         /\ RGt(Span(b), Int2Rat(111))

RadiusSum == RSum([r \in 1..RingCount |-> Rings[r].radius])

RadiiFit ==
    /\ \A r \in 1..RingCount : RGe(Rings[r].radius, Zero)
    /\ RLe(RAdd(RadiusSum, RMul(pie.config.ringPadding, Int2Rat(RingCount - 1))),
           RSub(pie.config.outerRadius, pie.config.innerRadius))

RingFloorFits ==
    RLe(RMul(pie.config.minRingRadius, Int2Rat(RingCount)),
        AvailableRadius(Rings, pie.config))

C5_InnerRadius ==
    Built =>
        \A r \in 1..RingCount :
            Rings[r].innerRadius =
                RAdd(pie.config.innerRadius,
                     RSum([i \in 1..(r - 1) |->
                             RAdd(Rings[i].radius, pie.config.ringPadding)]))

\* C5 witness: three rings stacked outward with padding between them
C5_Witness ==
    /\ Built
    /\ RingCount = 3
    /\ RGt(pie.config.ringPadding, Zero)
    /\ RGt(Rings[2].innerRadius, Rings[1].innerRadius)
    /\ RGt(Rings[3].innerRadius, Rings[2].innerRadius)

\* C6: with ringMaxOpacity >= ringMinOpacity and any number of rings >= 1, level 0
\* has opacity ringMaxOpacity, the outermost ring ringMinOpacity, every opacity is
\* a number within the two, and opacity does not increase with the level
C6_Opacity ==
    (Built /\ RGe(pie.config.ringMaxOpacity, pie.config.ringMinOpacity)) =>
        /\ Rings[1].opacity = pie.config.ringMaxOpacity
        /\ Rings[RingCount].opacity = pie.config.ringMinOpacity
        /\ \A r \in 1..RingCount :
             /\ IsNum(Rings[r].opacity)
             /\ RLe(pie.config.ringMinOpacity, Rings[r].opacity)
             /\ RLe(Rings[r].opacity, pie.config.ringMaxOpacity)
        /\ \A r \in 1..(RingCount - 1) : RGe(Rings[r].opacity, Rings[r + 1].opacity)

Segments ==
    { <<s, q, g>> \in (1..Len(radarContent.slices)) \X (1..2) \X (1..RingCount) :
        /\ q <= Len(radarContent.slices[s].subSlices)
        /\ g <= Len(radarContent.slices[s].subSlices[q].segments) }

DanglingSlice ==
    \E a \in 1..SubSliceCount :
        FindById(radarContent.slices, radarContent.subSlices[a].sliceId) = 0

DanglingRing ==
    \E sqg \in Segments :
        FindById(Rings, radarContent.slices[sqg[1]].subSlices[sqg[2]].segments[sqg[3]].ringId) = 0

\* C10: construction from a snapshot in which a segment's ringId names no ring, or
\* a sub-slice's sliceId names no slice, throws and yields no RadarPie
C10_MissingReference ==
    (op = "construct" /\ (DanglingSlice \/ DanglingRing)) =>
        err # "none" /\ ~pie.built

\* C10 witness: the constructor threw on the dangling ringId of a segment of the
\* last sub-slice, after the sub-slices before it were laid out
C10_Witness ==
    /\ op = "construct"
    /\ DanglingRing /\ ~DanglingSlice
    /\ err = "TypeError"
    /\ SubSliceCount = 3
    /\ ArcOf(1).startAngle = Zero
    /\ ArcOf(3).startAngle # Undef
    /\ radarContent.slices[2].subSlices[1].segments[RingCount].arcParams = NoArc

\* C12: every RadarPie works on its own copy of the content: a construction leaves
\* the snapshot passed to it unchanged, and a second construction from the same
\* snapshot leaves the ring radii, opacities, arc parameters and label data of the
\* first RadarPie unchanged.  (A RadarPie keeps the snapshot it was given as its
\* radarContent, so radarContent is the content of every RadarPie built from it.)
C12_OwnCopy ==
    [][ op' = "construct" =>
          /\ radarContent' = radarContent
          /\ Built => /\ radarContent'.rings = radarContent.rings
                      /\ radarContent'.slices = radarContent.slices ]_vars

RingClamped(r) ==
    r \in Clamped(RingWeights(Rings), AvailableRadius(Rings, pie.config), pie.config.minRingRadius)

\* two rings, i inside j, with the same positive item count, neither clamped
EqualRings(i, j) ==
    /\ i < j
    /\ Rings[i].itemCount > 0
    /\ Rings[i].itemCount = Rings[j].itemCount
    /\ ~RingClamped(i) /\ ~RingClamped(j)

\* C13 as stated: of two rings with the same positive item count, neither clamped
\* to minRingRadius, the outer one gets a radius at least as large as the inner one
C13_OuterRingsLarger ==
    Built =>
        \A i, j \in 1..RingCount : EqualRings(i, j) => RGe(Rings[j].radius, Rings[i].radius)

\* C13 amended: with minRingRadius >= 0, of two rings with the same positive item
\* count, neither clamped to minRingRadius, the inner one gets a radius at least
\* as large as the outer one
C13_InnerRingsLarger ==
    (Built /\ RGe(pie.config.minRingRadius, Zero)) =>
        \A i, j \in 1..RingCount : EqualRings(i, j) => RGe(Rings[i].radius, Rings[j].radius)

\* C13 witness: two rings with one item each, both above minRingRadius, the inner
\* one four times as thick as the outer one
C13_Witness ==
    /\ Built
    /\ RingCount = 2
    /\ EqualRings(1, 2)
    /\ RGt(pie.config.minRingRadius, Zero)
    /\ Rings[1].radius = RMul(Int2Rat(4), Rings[2].radius)

\* the angles d3.pie gives the a-th sub-slice of the input list
PartitionArc(a) ==
    PieArcs(ScaledSubSlices(radarContent.subSlices, pie.config), pie.config.subSlicePadAngle)[a]

AnglesFromPartition(a) ==
    /\ ArcOf(a).startAngle = PartitionArc(a).startAngle
    /\ ArcOf(a).endAngle = PartitionArc(a).endAngle
    /\ ArcOf(a).padAngle = PartitionArc(a).padAngle

\* C14 as stated: for every configuration the stored arc of each sub-slice has
\* innerRadius 0 and outerRadius config.outerRadius, and its startAngle, endAngle
\* and padAngle are those of the angular partition
C14_SubSliceArcFromCentre ==
    Built =>
        \A a \in 1..SubSliceCount :
            /\ ArcOf(a).innerRadius = Zero
            /\ ArcOf(a).outerRadius = pie.config.outerRadius
            /\ AnglesFromPartition(a)

\* C14 amended: the stored arc of each sub-slice has innerRadius config.innerRadius
\* and outerRadius config.outerRadius, and its startAngle, endAngle and padAngle
\* are those of the angular partition
C14_SubSliceArc ==
    Built =>
        \A a \in 1..SubSliceCount :
            /\ ArcOf(a).innerRadius = pie.config.innerRadius
            /\ ArcOf(a).outerRadius = pie.config.outerRadius
            /\ AnglesFromPartition(a)

\* C14 witness: with innerRadius 5 the second of three sub-slices has an arc from
\* radius 5 to outerRadius that starts past angle 0
C14_Witness ==
    /\ Built
    /\ SubSliceCount = 3
    /\ pie.config.innerRadius = Int2Rat(5)
    /\ ArcOf(2).innerRadius = Int2Rat(5)
    /\ ArcOf(2).outerRadius = Int2Rat(250)
    /\ RGt(ArcOf(2).startAngle, Zero)
    /\ RGt(ArcOf(2).endAngle, ArcOf(2).startAngle)

----------------------------------------------------------------------------
(* Properties of the Proportional Scaler (checked under SpecScale) *)

Scaled == op = "scale"
Weights == scaleIn.weights
WeightCount == Len(scaleIn.weights)

ScaleFloorFits ==
    RLe(RMul(scaleIn.minimum, Int2Rat(WeightCount)), scaleIn.total)

\* some set of items sits at the minimum and the others share what is left of
\* the total in proportion to their weights
SharesProportional ==
    \E C \in SUBSET (1..WeightCount) :
        LET pool == RSum([i \in 1..WeightCount |-> IF i \in C THEN Zero ELSE Weights[i]])
            left == RSub(scaleIn.total, RMul(scaleIn.minimum, Int2Rat(Cardinality(C))))
        IN  \A i \in 1..WeightCount :
                IF i \in C THEN scaleOut[i] = scaleIn.minimum
                ELSE RMul(scaleOut[i], pool) = RMul(Weights[i], left)

ScalerContract ==
    /\ Len(scaleOut) = WeightCount
    /\ \A i \in 1..WeightCount : RGe(scaleOut[i], scaleIn.minimum)
    /\ RSum(scaleOut) = scaleIn.total
    /\ SharesProportional

\* C3 as stated: for every list of non-negative weights, total and floor m with
\* m x count <= total there is one output per weight, every output is >= m, the
\* outputs add up to total, and the items not at m share the rest by weight
C3_ScalerAlways == (Scaled /\ ScaleFloorFits) => ScalerContract

\* C3 amended: the same for every list with at least one positive weight
C3_Scaler ==
    (Scaled /\ ScaleFloorFits /\ \E i \in 1..WeightCount : RGt(Weights[i], Zero)) =>
        ScalerContract

\* C3 witness: weights 1, 2, 3 and total 36 under floor 11: the second item falls
\* below the floor only once the first is clamped, the third takes the rest
C3_Witness ==
    /\ Scaled /\ ScaleFloorFits
    /\ Weights = <<Int2Rat(1), Int2Rat(2), Int2Rat(3)>>
    /\ scaleIn.total = Int2Rat(36) /\ scaleIn.minimum = Int2Rat(11)
    /\ scaleOut = <<Int2Rat(11), Int2Rat(11), Int2Rat(14)>>

\* the outcome of the clamp-and-redistribute iteration on the arguments of the call
Iteration == ScaleRounds(Weights, scaleIn.total, scaleIn.minimum, {}, 0)

\* C16: for every list of non-negative weights, total and floor (equal low weights,
\* zero weights and floor x count > total included) the iteration ends after at
\* most N rounds for N items, every round but the last clamping at least one
\* further item
C16_Terminates ==
    Scaled =>
        /\ Iteration.rounds <= WeightCount
        /\ Cardinality(Iteration.clamped) >= Iteration.rounds - 1
        /\ Len(scaleOut) = WeightCount

\* C16 witness: weights 1 and 3 share 12 under floor 7: the first round clamps the
\* first item, the second round the second one, and then none is left
C16_Witness ==
    /\ Scaled
    /\ Weights = <<Int2Rat(1), Int2Rat(3)>>
    /\ scaleIn.total = Int2Rat(12) /\ scaleIn.minimum = Int2Rat(7)
    /\ Iteration.rounds = 2
    /\ Iteration.clamped = {1, 2}
    /\ scaleOut = <<Int2Rat(7), Int2Rat(7)>>

----------------------------------------------------------------------------
(* Properties of calculateAnchorPlacement (checked under SpecAnchor) *)

Classified == op = "classify"

\* the angle the call is about: the one given, or the middle of the two
Asked ==
    IF anchorIn[2] = Undef THEN anchorIn[1]
    ELSE RDiv(RAdd(anchorIn[1], anchorIn[2]), Int2Rat(2))

InRange(a) == RGe(a, Zero) /\ RLe(a, Int2Rat(360))
OutOfRange(a) == RLt(a, Zero) \/ RGt(a, Int2Rat(360))

RAbs(a) == IF RLt(a, Zero) THEN RSub(Zero, a) ELSE a
FromTop(a) == RMin(a, RSub(Int2Rat(360), a))
FromBottom(a) == RAbs(RSub(a, Int2Rat(180)))
Between(a, lo, hi) == RGe(a, Int2Rat(lo)) /\ RLe(a, Int2Rat(hi))

BandH(a) ==
    CASE RLt(FromTop(a), Int2Rat(10)) \/ RLt(FromBottom(a), Int2Rat(10)) -> "middle"
      [] Between(a, 10, 170) -> "start"
      [] Between(a, 190, 350) -> "end"

BandV(a) ==
    CASE RLt(FromTop(a), Int2Rat(45)) -> "baseline"
      [] RLt(FromBottom(a), Int2Rat(45)) -> "hanging"
      [] Between(a, 45, 135) \/ Between(a, 225, 315) -> "middle"

Placed(h, v) == anchorOut = [err |-> "none", anchor |-> [hAnchor |-> h, vAnchor |-> v]]

C9_OutOfRangeThrows ==
    (Classified /\ OutOfRange(Asked)) =>
        anchorOut.err # "none" /\ anchorOut.anchor = NoAnchor

----------------------------------------------------------------------------
(* Properties of the build (checked under SpecBuild) *)

SegmentAt(t) == radarContent.slices[t[1]].subSlices[t[2]].segments[t[3]]

RingsLaidOut ==
    \A r \in 1..Len(radarContent.rings) :
        /\ radarContent.rings[r].radius # Undef
        /\ radarContent.rings[r].innerRadius # Undef
        /\ radarContent.rings[r].opacity # Undef

ArcsLaidOut ==
    /\ \A s \in 1..Len(radarContent.slices) :
        /\ radarContent.slices[s].labelData # NoSliceLabel
        /\ \A q \in 1..Len(radarContent.slices[s].subSlices) :
            /\ radarContent.slices[s].subSlices[q].arcParams # NoArc
            /\ radarContent.slices[s].subSlices[q].labelData # NoLabel
    /\ \A t \in Segments : SegmentAt(t).arcParams # NoArc

ItemsPlaced ==
    \A t \in Segments : \A j \in 1..Len(SegmentAt(t).items) :
        SegmentAt(t).items[j].x # Undef /\ SegmentAt(t).items[j].y # Undef

\* C11: in every build the phases run in order: the ring radii and opacities,
\* the sub-slice and segment arcs, the label data and the item positions are all
\* computed before the first drawable element of the pie is created;
\* arrangeLabels starts only after the pie, the item legend and the ring legend
\* have been appended; scaleToFit starts only after arrangeLabels has finished
C11_PhaseOrder ==
    /\ build.pieElements > 0 => RingsLaidOut /\ ArcsLaidOut /\ ItemsPlaced
    /\ build.arrangeLabels # "no" => build.appended = {"radarPie", "itemLegend", "ringLegend"}
    /\ build.scaleToFit => build.arrangeLabels = "done"

\* the segment new RadarSegment(...) is about to be called for, before and after
SegmentNow == radarContent.slices[build.s].subSlices[build.q].segments[build.g]
SegmentThen == radarContent'.slices[build.s].subSlices[build.q].segments[build.g]

\* C15: new RadarSegment(segment, rings) raises no error and gives every item of
\* the segment a position, and changes nothing else: the only item of a segment
\* gets the arc centroid; the N > 1 items of a segment get the N distributed
\* points, the idx-th item the idx-th point; a segment without items is left as
\* it is
C15_ItemPositions ==
    [][ (build.pc = "segments" /\ op' = "newRadarSegment") =>
          LET n == Len(SegmentNow.items)
              boundary == getItemBoundaryArc(SegmentNow.arcParams, Int2Rat(PADDING_ANGLE),
                              Int2Rat(PAD_INNER_RADIUS), Int2Rat(PAD_OUTER_RADIUS))
              points == distributePointsWithinBoundary(boundary, n)
          IN  /\ err' = "none"
              /\ Len(SegmentThen.items) = n
              /\ \A idx \in 1..n :
                   SegmentThen.items[idx].x # Undef /\ SegmentThen.items[idx].y # Undef
              /\ n = 1 => /\ SegmentThen.items[1].x = ArcCentroid(SegmentNow.arcParams)[1]
                          /\ SegmentThen.items[1].y = ArcCentroid(SegmentNow.arcParams)[2]
              /\ n > 1 => \A idx \in 1..n :
                            /\ SegmentThen.items[idx].x = points[idx][1]
                            /\ SegmentThen.items[idx].y = points[idx][2]
              /\ radarContent' =
                   [ radarContent EXCEPT
                       !.slices[build.s].subSlices[build.q].segments[build.g].items =
                           SegmentThen.items ] ]_vars

\* C15 witness: a finished build with a segment whose only item sits at the arc
\* centroid and a segment whose two items sit at two different distributed points
C15_Witness ==
    /\ build.pc = "done"
    /\ err = "none"
    /\ \E t \in Segments :
         /\ Len(SegmentAt(t).items) = 1
         /\ SegmentAt(t).items[1].x = ArcCentroid(SegmentAt(t).arcParams)[1]
         /\ SegmentAt(t).items[1].y = ArcCentroid(SegmentAt(t).arcParams)[2]
    /\ \E t \in Segments :
         /\ Len(SegmentAt(t).items) = 2
         /\ SegmentAt(t).items[1].x.fn = "px" /\ SegmentAt(t).items[1].x.idx = 1
         /\ SegmentAt(t).items[2].x.fn = "px" /\ SegmentAt(t).items[2].x.idx = 2
         /\ SegmentAt(t).items[1] # SegmentAt(t).items[2]

\* C17: appendTo called before a fetchData call has completed -- fetchData never
\* called, or called and still pending -- raises RadarError and never goes on to
\* construct a RadarPie
C17_FetchDataFirst ==
    (build.pc # "idle" /\ ~build.fetched) =>
        /\ build.pc = "failed"
        /\ err = "RadarError"
        /\ ~pie.built

====
